---------------------------- MODULE Spec2Model ----------------------------
(***************************************************************************)
(* Model of src/src/app/page.tsx, the numerical differentiation           *)
(* calculator: the finite-difference method set, the orchestrator         *)
(* (calculateDerivatives), the plot sampler (generatePlotData), the       *)
(* convergence sweep (generateErrorData) and the React effects that       *)
(* re-run them when an input changes.                                      *)
(*                                                                         *)
(* Numbers.  A JavaScript number is modelled as a pair <<n, d>>:           *)
(*   d > 0           the rational n/d in lowest terms (a finite double),   *)
(*   <<1, 0>>        +Infinity,   <<-1, 0>>  -Infinity,                    *)
(*   <<0, 0>>        NaN.                                                  *)
(* The arithmetic follows IEEE-754 on the special values (x/0, Inf-Inf,    *)
(* NaN propagation); on finite values it is exact, so rounding error is    *)
(* not modelled.  JavaScript's null is the pair <<0, -1>>, and an          *)
(* exception thrown by compiled.evaluate is the pair <<0, -2>>.            *)
(***************************************************************************)
EXTENDS Integers, Sequences, FiniteSets, TLC

NaN == <<0, 0>>
PosInf == <<1, 0>>
NegInf == <<-1, 0>>
Null == <<0, -1>>
Throws == <<0, -2>>

IsNaN(a) == a = NaN
IsInf(a) == a[2] = 0 /\ a[1] # 0
IsFinite(a) == a[2] > 0

AbsInt(n) == IF n < 0 THEN -n ELSE n
SignInt(n) == IF n < 0 THEN -1 ELSE IF n > 0 THEN 1 ELSE 0

RECURSIVE Gcd(_, _)
Gcd(a, b) == IF b = 0 THEN a ELSE Gcd(b, a % b)

\* the rational n/d (d # 0) in lowest terms with a positive denominator
Norm(n, d) ==
    LET g == Gcd(AbsInt(n), AbsInt(d))
        s == IF d < 0 THEN -1 ELSE 1
    IN  <<(s * n) \div g, (s * d) \div g>>

Num(n) == <<n, 1>>
Rat(n, d) == Norm(n, d)

Neg(a) == IF a[2] > 0 THEN <<-a[1], a[2]>> ELSE <<-a[1], 0>>

\* a + b
Add(a, b) ==
    IF IsNaN(a) \/ IsNaN(b) THEN NaN
    ELSE IF IsInf(a) /\ IsInf(b) THEN (IF a = b THEN a ELSE NaN)
    ELSE IF IsInf(a) THEN a
    ELSE IF IsInf(b) THEN b
    ELSE LET g == Gcd(a[2], b[2])
         IN  Norm(a[1] * (b[2] \div g) + b[1] * (a[2] \div g),
                  (a[2] \div g) * b[2])

\* a - b
Sub(a, b) == Add(a, Neg(b))

\* a * b
Mul(a, b) ==
    IF IsNaN(a) \/ IsNaN(b) THEN NaN
    ELSE IF IsInf(a) \/ IsInf(b)
         THEN (IF a[1] = 0 \/ b[1] = 0 THEN NaN
               ELSE <<SignInt(a[1]) * SignInt(b[1]), 0>>)
    ELSE LET g1 == Gcd(AbsInt(a[1]), b[2])
             g2 == Gcd(AbsInt(b[1]), a[2])
         IN  <<(a[1] \div g1) * (b[1] \div g2),
               (a[2] \div g2) * (b[2] \div g1)>>

\* a / b: a finite nonzero value over zero is an infinity, 0/0 is NaN
Div(a, b) ==
    IF IsNaN(a) \/ IsNaN(b) THEN NaN
    ELSE IF IsInf(b) THEN (IF IsInf(a) THEN NaN ELSE Num(0))
    ELSE IF b[1] = 0
         THEN (IF a[1] = 0 THEN NaN ELSE <<SignInt(a[1]), 0>>)
    ELSE IF IsInf(a) THEN <<a[1] * SignInt(b[1]), 0>>
    ELSE Mul(a, Norm(b[2], b[1]))

\* Math.abs
Abs(a) == IF a[2] > 0 THEN <<AbsInt(a[1]), a[2]>> ELSE <<AbsInt(a[1]), 0>>

\* Math.floor
Floor(a) == IF a[2] > 0 THEN <<a[1] \div a[2], 1>> ELSE a

\* a < b on finite values
Less(a, b) == a[1] * b[2] < b[1] * a[2]

(***************************************************************************)
(* Expressions.  The text of the function input is modelled by what        *)
(* mathjs makes of it:                                                     *)
(*   kind "poly"       a*x^2 + b*x + c, e.g. the default "x^2 + 2*x + 1"   *)
(*   kind "inv"        "1/x"                                               *)
(*   kind "floor"      "floor(x)": compiles, math.derivative rejects it    *)
(*   kind "sym"        "y": compiles, evaluation throws (undefined symbol),*)
(*                     the derivative with respect to x is the constant 0  *)
(*   kind "malformed"  "x^^2": math.parse throws                           *)
(***************************************************************************)
Poly(a, b, c) == [kind |-> "poly", a |-> a, b |-> b, c |-> c]
Other(k) == [kind |-> k, a |-> 0, b |-> 0, c |-> 0]
DefaultFunction == Poly(1, 2, 1)
Malformed == Other("malformed")
Inverse == Other("inv")
FloorX == Other("floor")
FreeSymbol == Other("sym")

\* math.parse(input) succeeds
Parses(input) == input.kind # "malformed"

\* math.derivative(expr, "x") succeeds
Differentiable(input) == Parses(input) /\ input.kind # "floor"

\* compiled.evaluate({ x }) of the parsed input: a number, or Throws
Evaluate(input, x) ==
    CASE input.kind = "poly" ->
            Add(Add(Mul(Num(input.a), Mul(x, x)), Mul(Num(input.b), x)),
                Num(input.c))
      [] input.kind = "inv" -> Div(Num(1), x)
      [] input.kind = "floor" -> Floor(x)
      [] OTHER -> Throws

\* compiled.evaluate({ x }) of the symbolic derivative of the input
EvaluateDerivative(input, x) ==
    CASE input.kind = "poly" -> Add(Mul(Num(2 * input.a), x), Num(input.b))
      [] input.kind = "inv" -> Neg(Div(Num(1), Mul(x, x)))
      [] input.kind = "sym" -> Num(0)
      [] OTHER -> Throws

\* the catch returning 0 instead of Number.NaN
CatchNaN_Zero(v) == IF v = Throws THEN Num(0) ELSE v

\* the inner try/catch of both wrappers: a thrown evaluation is NaN
CatchNaN(v) == IF v = Throws THEN NaN ELSE v

\* parseFunction's return value: the callable (represented by the input it
\* was compiled from) or null
NoFunction == Other("null")
parseFunction(input) == IF Parses(input) THEN input ELSE NoFunction

\* getAnalyticalDerivative's return value
getAnalyticalDerivative(input) ==
    IF Differentiable(input) THEN input ELSE NoFunction

\* func(x), for func returned by parseFunction
CallFunc(func, x) == CatchNaN(Evaluate(func, x))

\* analyticalDerivative(x), for the callable of getAnalyticalDerivative
CallDerivative(deriv, x) == CatchNaN(EvaluateDerivative(deriv, x))

(***************************************************************************)
(* The method set.                                                         *)
(***************************************************************************)
Forward == "Forward Difference"
Backward == "Backward Difference"
Central == "Central Difference"

methods ==
    << [name |-> Forward, formula |-> "(f(x+h) - f(x)) / h",
        order |-> "O(h)", color |-> "#3b82f6"],
       [name |-> Backward, formula |-> "(f(x) - f(x-h)) / h",
        order |-> "O(h)", color |-> "#ef4444"],
       [name |-> Central, formula |-> "(f(x+h) - f(x-h)) / (2h)",
        order |-> "O(h^2)", color |-> "#10b981"] >>

MethodNames == {methods[i].name : i \in DOMAIN methods}

\* methods.find((m) => m.name === methodName), for a name of the set
FindMethod(methodName) ==
    methods[CHOOSE i \in DOMAIN methods : methods[i].name = methodName]

ForwardCalculate(f, x, h) ==
    Div(Sub(CallFunc(f, Add(x, h)), CallFunc(f, x)), h)

BackwardCalculate(f, x, h) ==
    Div(Sub(CallFunc(f, x), CallFunc(f, Sub(x, h))), h)

\* the central difference divided by h instead of 2h
CentralCalculate_DivH(f, x, h) ==
    Div(Sub(CallFunc(f, Add(x, h)), CallFunc(f, Sub(x, h))), h)

CentralCalculate(f, x, h) ==
    Div(Sub(CallFunc(f, Add(x, h)), CallFunc(f, Sub(x, h))),
        Mul(Num(2), h))

\* method.calculate(func, x, h)
Calculate(methodName, f, x, h) ==
    CASE methodName = Forward -> ForwardCalculate(f, x, h)
      [] methodName = Backward -> BackwardCalculate(f, x, h)
      [] methodName = Central -> CentralCalculate(f, x, h)

\* the selected names taken in the order of the registry
KnownMethods_RegistryOrder(selection) ==
    SelectSeq([i \in DOMAIN methods |-> methods[i].name],
              LAMBDA m : \E i \in DOMAIN selection : selection[i] = m)

\* the names of a selection that the method set knows, in selection order
KnownMethods(selection) == SelectSeq(selection, LAMBDA m : m \in MethodNames)

(***************************************************************************)
(* calculateDerivatives: the results it hands to setResults.               *)
(***************************************************************************)
\* analyticalDerivative ? analyticalDerivative(x) : null
AnalyticalResult(analyticalDerivative, x) ==
    IF analyticalDerivative # NoFunction
    THEN CallDerivative(analyticalDerivative, x)
    ELSE Null

\* the absolute error without the null check: n - null is n
AbsoluteError_NoNullGuard(numericalResult, analyticalResult) ==
    IF analyticalResult # Null
    THEN Abs(Sub(numericalResult, analyticalResult))
    ELSE Abs(numericalResult)

\* error: Math.abs(numericalResult - analyticalResult), or null
AbsoluteError(numericalResult, analyticalResult) ==
    IF analyticalResult # Null
    THEN Abs(Sub(numericalResult, analyticalResult))
    ELSE Null

\* the relative error without the check for a zero analytical value
RelativeError_NoZeroGuard(numericalResult, analyticalResult) ==
    IF analyticalResult # Null
    THEN Mul(Abs(Div(Sub(numericalResult, analyticalResult),
                     analyticalResult)), Num(100))
    ELSE Null

\* relativeError, in percent, or null
RelativeError(numericalResult, analyticalResult) ==
    IF analyticalResult # Null /\ analyticalResult # Num(0)
    THEN Mul(Abs(Div(Sub(numericalResult, analyticalResult),
                     analyticalResult)), Num(100))
    ELSE Null

\* one pass of the forEach body for a method name of the set
ResultFor(methodName, func, analyticalDerivative, x, h) ==
    LET method == FindMethod(methodName)
        numericalResult == Calculate(methodName, func, x, h)
        analyticalResult == AnalyticalResult(analyticalDerivative, x)
    IN  [method |-> methodName,
         numerical |-> numericalResult,
         analytical |-> analyticalResult,
         absoluteError |-> AbsoluteError(numericalResult, analyticalResult),
         relativeError |-> RelativeError(numericalResult, analyticalResult),
         formula |-> method.formula,
         order |-> method.order,
         color |-> method.color]

\* newResults, for an input that compiles
NewResults(input, x, h, selection) ==
    LET func == parseFunction(input)
        analyticalDerivative == getAnalyticalDerivative(input)
        known == KnownMethods(selection)
    IN  [i \in 1..Len(known) |->
            ResultFor(known[i], func, analyticalDerivative, x, h)]

(***************************************************************************)
(* generateErrorData: the traces it hands to setErrorData.                 *)
(***************************************************************************)
SweepLength == 20

RECURSIVE TenTo(_)
TenTo(k) == IF k = 0 THEN 1 ELSE 10 * TenTo(k - 1)

\* 10^(j/5) for j = 0..4, to two significant digits (1.58.., 2.51.., 3.98..,
\* 6.31..), the precision that keeps the sweep's squares within TLC's integers
Mantissa == <<Rat(1, 1), Rat(8, 5), Rat(5, 2), Rat(4, 1), Rat(25, 4)>>

\* Math.pow(10, -4 + i * 0.2)
SweepStep(i) == Mul(Mantissa[(i % 5) + 1], Rat(TenTo(i \div 5), TenTo(4)))

\* the sweep with i running from 1
stepSizes_FromOne == [k \in 1..SweepLength |-> SweepStep(k)]

\* Array.from({ length: 20 }, (_, i) => Math.pow(10, -4 + i * 0.2))
stepSizes == [k \in 1..SweepLength |-> SweepStep(k - 1)]

\* the errors of one method over the sweep
SweepErrors(methodName, func, analyticalDerivative, x) ==
    [k \in 1..SweepLength |->
        LET numerical == Calculate(methodName, func, x, stepSizes[k])
            analytical == CallDerivative(analyticalDerivative, x)
        IN  Abs(Sub(numerical, analytical))]

\* traces, for an input that compiles and has a derivative
ErrorTraces(input, x, selection) ==
    LET func == parseFunction(input)
        analyticalDerivative == getAnalyticalDerivative(input)
        known == KnownMethods(selection)
    IN  [i \in 1..Len(known) |->
            [name |-> known[i],
             x |-> stepSizes,
             y |-> SweepErrors(known[i], func, analyticalDerivative, x),
             color |-> FindMethod(known[i]).color]]

(***************************************************************************)
(* generatePlotData: the traces it hands to setPlotData.                   *)
(***************************************************************************)
PlotSamples == 200

\* xRange: (i - 100) * 0.1 + evaluationPoint for i = 0..199
XRange(x) ==
    [k \in 1..PlotSamples |-> Add(Mul(Num(k - 1 - 100), Rat(1, 10)), x)]

\* the function trace and the evaluation point
CurveTraces(func, x) ==
    LET xRange == XRange(x)
    IN  << [name |-> "f(x)", method |-> "", x |-> xRange,
            y |-> [k \in 1..PlotSamples |-> CallFunc(func, xRange[k])],
            color |-> "#1f2937"],
           [name |-> "Evaluation Point", method |-> "", x |-> <<x>>,
            y |-> <<CallFunc(func, x)>>, color |-> "#dc2626"] >>

\* one tangent line per stored result, when tangent lines are shown
TangentTraces(func, x, storedResults, showTangents) ==
    IF showTangents
    THEN [i \in 1..Len(storedResults) |->
            LET slope == storedResults[i].numerical
                y0 == CallFunc(func, x)
                tangentX == <<Sub(x, Num(1)), Add(x, Num(1))>>
            IN  [name |-> "Tangent", method |-> storedResults[i].method,
                 x |-> tangentX,
                 y |-> [k \in 1..2 |->
                          Add(y0, Mul(slope, Sub(tangentX[k], x)))],
                 color |-> storedResults[i].color]]
    ELSE <<>>

\* samplingPoints of a method
SamplingPoints(methodName, x, h) ==
    CASE methodName = Forward -> <<x, Add(x, h)>>
      [] methodName = Backward -> <<Sub(x, h), x>>
      [] methodName = Central -> <<Sub(x, h), Add(x, h)>>

\* one trace of sampling points per selected method of the set
SamplingTraces(func, x, h, selection) ==
    LET known == KnownMethods(selection)
    IN  [i \in 1..Len(known) |->
            LET samplingPoints == SamplingPoints(known[i], x, h)
            IN  [name |-> "Points", method |-> known[i],
                 x |-> samplingPoints,
                 y |-> [k \in 1..2 |-> CallFunc(func, samplingPoints[k])],
                 color |-> FindMethod(known[i]).color]]

\* traces, for an input that compiles
PlotTraces(input, x, h, selection, storedResults, showTangents) ==
    LET func == parseFunction(input)
    IN  CurveTraces(func, x)
        \o TangentTraces(func, x, storedResults, showTangents)
        \o SamplingTraces(func, x, h, selection)

(***************************************************************************)
(* The component.  The first nine variables are its useState cells as of   *)
(* the last render.  A useEffect whose callback was recreated by that      *)
(* render waits in queue (in declaration order); an effect reads the       *)
(* rendered state through its closure and its set-calls wait in pending    *)
(* until React renders again (Render).  invokedSteps records the steps h   *)
(* the last effect passed to method.calculate; changes counts the user's   *)
(* input events; exported holds the data of the last exported file.        *)
(***************************************************************************)
VARIABLES functionInput, evaluationPoint, stepSize, selectedMethods,
          showTangentLines, results, plotData, errorData, functionError,
          queue, pending, invokedSteps, changes, exported

inputs ==
    <<functionInput, evaluationPoint, stepSize, selectedMethods,
      showTangentLines>>
outputs == <<results, plotData, errorData, functionError>>
vars ==
    <<inputs, outputs, queue, pending, invokedSteps, changes, exported>>

MaxChanges == 2
MaxCoef == 1
MaxSelection == 2

CalcEffect == "calculateDerivatives"
PlotEffect == "generatePlotData"
ErrorEffect == "generateErrorData"
InvalidSyntax == "Invalid function syntax"

NoPending ==
    [results |-> <<>>, plotData |-> <<>>, errorData |-> <<>>,
     functionError |-> <<>>]

\* nothing left to run or to render
Settled == queue = <<>> /\ pending = NoPending

\* what the user can type and tick
FunctionInputs == {DefaultFunction, Poly(0, 3, 0), Malformed, Inverse,
                   FloorX, FreeSymbol}
EvaluationPoints == {Num(-1), Num(0), Num(1)}
UserSteps == {Rat(1, 10), Num(0), Rat(1, 2)}

\* the useState defaults, with every effect waiting for the mount
Init ==
    /\ functionInput = DefaultFunction
    /\ evaluationPoint = Num(1)
    /\ stepSize = Rat(1, 10)
    /\ selectedMethods = <<Central>>
    /\ showTangentLines = TRUE
    /\ results = <<>>
    /\ plotData = <<>>
    /\ errorData = <<>>
    /\ functionError = ""
    /\ queue = <<CalcEffect, PlotEffect, ErrorEffect>>
    /\ pending = NoPending
    /\ invokedSteps = {}
    /\ changes = 0
    /\ exported = <<>>

\* calculateDerivatives without its setFunctionError("")
CalculateDerivatives_NoClear ==
    /\ queue # <<>> /\ Head(queue) = CalcEffect
    /\ queue' = Tail(queue)
    /\ IF parseFunction(functionInput) = NoFunction
       THEN /\ pending' = [pending EXCEPT !.functionError = <<InvalidSyntax>>]
            /\ invokedSteps' = {}
       ELSE /\ pending' =
                [pending EXCEPT
                    !.results = <<NewResults(functionInput, evaluationPoint,
                                             stepSize, selectedMethods)>>]
            /\ invokedSteps' =
                IF KnownMethods(selectedMethods) # <<>>
                THEN {stepSize} ELSE {}
    /\ UNCHANGED <<inputs, outputs, changes, exported>>

\* useEffect(() => calculateDerivatives(), [calculateDerivatives])
CalculateDerivatives ==
    /\ queue # <<>> /\ Head(queue) = CalcEffect
    /\ queue' = Tail(queue)
    /\ IF parseFunction(functionInput) = NoFunction
       THEN /\ pending' = [pending EXCEPT !.functionError = <<InvalidSyntax>>]
            /\ invokedSteps' = {}
       ELSE /\ pending' =
                [pending EXCEPT
                    !.functionError = <<"">>,
                    !.results = <<NewResults(functionInput, evaluationPoint,
                                             stepSize, selectedMethods)>>]
            /\ invokedSteps' =
                IF KnownMethods(selectedMethods) # <<>>
                THEN {stepSize} ELSE {}
    /\ UNCHANGED <<inputs, outputs, changes, exported>>

\* useEffect(() => generatePlotData(), [generatePlotData])
GeneratePlotData ==
    /\ queue # <<>> /\ Head(queue) = PlotEffect
    /\ queue' = Tail(queue)
    /\ IF parseFunction(functionInput) = NoFunction
       THEN pending' = [pending EXCEPT !.functionError = <<InvalidSyntax>>]
       ELSE pending' =
                [pending EXCEPT
                    !.plotData = <<PlotTraces(functionInput, evaluationPoint,
                                              stepSize, selectedMethods,
                                              results, showTangentLines)>>]
    /\ invokedSteps' = {}
    /\ UNCHANGED <<inputs, outputs, changes, exported>>

\* useEffect(() => generateErrorData(), [generateErrorData])
GenerateErrorData ==
    /\ queue # <<>> /\ Head(queue) = ErrorEffect
    /\ queue' = Tail(queue)
    /\ IF parseFunction(functionInput) = NoFunction
       THEN /\ pending' = [pending EXCEPT !.functionError = <<InvalidSyntax>>]
            /\ invokedSteps' = {}
       ELSE IF getAnalyticalDerivative(functionInput) = NoFunction
       THEN /\ pending' = pending
            /\ invokedSteps' = {}
       ELSE /\ pending' =
                [pending EXCEPT
                    !.errorData = <<ErrorTraces(functionInput,
                                                evaluationPoint,
                                                selectedMethods)>>]
            /\ invokedSteps' =
                IF KnownMethods(selectedMethods) # <<>>
                THEN {stepSizes[k] : k \in 1..SweepLength} ELSE {}
    /\ UNCHANGED <<inputs, outputs, changes, exported>>

\* a render after which generatePlotData is not run again (results missing
\* from its dependency list)
Render_NoRequeue ==
    /\ queue = <<>> /\ pending # NoPending
    /\ results' =
        IF pending.results # <<>> THEN pending.results[1] ELSE results
    /\ plotData' =
        IF pending.plotData # <<>> THEN pending.plotData[1] ELSE plotData
    /\ errorData' =
        IF pending.errorData # <<>> THEN pending.errorData[1] ELSE errorData
    /\ functionError' =
        IF pending.functionError # <<>> THEN pending.functionError[1]
        ELSE functionError
    /\ queue' = <<>>
    /\ pending' = NoPending
    /\ invokedSteps' = {}
    /\ UNCHANGED <<inputs, changes, exported>>

\* React renders with the queued state: setResults always stores a new
\* array, so generatePlotData (which lists results among its dependencies)
\* is recreated and its effect runs again
Render ==
    /\ queue = <<>> /\ pending # NoPending
    /\ results' =
        IF pending.results # <<>> THEN pending.results[1] ELSE results
    /\ plotData' =
        IF pending.plotData # <<>> THEN pending.plotData[1] ELSE plotData
    /\ errorData' =
        IF pending.errorData # <<>> THEN pending.errorData[1] ELSE errorData
    /\ functionError' =
        IF pending.functionError # <<>> THEN pending.functionError[1]
        ELSE functionError
    /\ queue' = IF pending.results # <<>> THEN <<PlotEffect>> ELSE <<>>
    /\ pending' = NoPending
    /\ invokedSteps' = {}
    /\ UNCHANGED <<inputs, changes, exported>>

\* an input event is handled once the effects of the last render have run
CanChange == Settled /\ changes < MaxChanges

\* onChange of the function input
SetFunctionInput ==
    /\ CanChange
    /\ \E v \in FunctionInputs \ {functionInput} : functionInput' = v
    /\ queue' = <<CalcEffect, PlotEffect, ErrorEffect>>
    /\ changes' = changes + 1
    /\ UNCHANGED <<evaluationPoint, stepSize, selectedMethods,
                   showTangentLines, outputs, pending, invokedSteps, exported>>

\* onChange of the evaluation point
SetEvaluationPoint ==
    /\ CanChange
    /\ \E v \in EvaluationPoints \ {evaluationPoint} : evaluationPoint' = v
    /\ queue' = <<CalcEffect, PlotEffect, ErrorEffect>>
    /\ changes' = changes + 1
    /\ UNCHANGED <<functionInput, stepSize, selectedMethods,
                   showTangentLines, outputs, pending, invokedSteps, exported>>

\* onChange of the step size: generateErrorData does not depend on it
SetStepSize ==
    /\ CanChange
    /\ \E v \in UserSteps \ {stepSize} : stepSize' = v
    /\ queue' = <<CalcEffect, PlotEffect>>
    /\ changes' = changes + 1
    /\ UNCHANGED <<functionInput, evaluationPoint, selectedMethods,
                   showTangentLines, outputs, pending, invokedSteps, exported>>

\* handleMethodToggle(methodName, checked)
handleMethodToggle(prev, methodName, checked) ==
    IF checked
    THEN Append(prev, methodName)
    ELSE SelectSeq(prev, LAMBDA m : m # methodName)

\* includes(name)
Includes(selection, name) ==
    \E i \in 1..Len(selection) : selection[i] = name

\* onCheckedChange of a method's checkbox, which shows
\* selectedMethods.includes(method.name)
HandleMethodToggle ==
    /\ CanChange
    /\ \E i \in DOMAIN methods :
          selectedMethods' =
              handleMethodToggle(selectedMethods, methods[i].name,
                                 ~Includes(selectedMethods, methods[i].name))
    /\ queue' = <<CalcEffect, PlotEffect, ErrorEffect>>
    /\ changes' = changes + 1
    /\ UNCHANGED <<functionInput, evaluationPoint, stepSize,
                   showTangentLines, outputs, pending, invokedSteps, exported>>

\* onCheckedChange of "show tangent lines"
SetShowTangentLines ==
    /\ CanChange
    /\ showTangentLines' = ~showTangentLines
    /\ queue' = <<PlotEffect>>
    /\ changes' = changes + 1
    /\ UNCHANGED <<functionInput, evaluationPoint, stepSize, selectedMethods,
                   outputs, pending, invokedSteps, exported>>

\* exportResults: the data written to the downloaded JSON file
ExportData ==
    [function |-> functionInput,
     evaluationPoint |-> evaluationPoint,
     stepSize |-> stepSize,
     results |-> results]

\* onClick of "Export Results"
ExportResults ==
    /\ Settled
    /\ exported' = <<ExportData>>
    /\ UNCHANGED <<inputs, outputs, queue, pending, invokedSteps, changes>>

Next ==
    \/ CalculateDerivatives
    \/ GeneratePlotData
    \/ GenerateErrorData
    \/ Render
    \/ SetFunctionInput
    \/ SetEvaluationPoint
    \/ SetStepSize
    \/ HandleMethodToggle
    \/ SetShowTangentLines
    \/ ExportResults

Spec == Init /\ [][Next]_vars

(***************************************************************************)
(* The orchestrator and the sweep as functions of their inputs: the        *)
(* component mounted on any input tuple of a bounded set (any quadratic    *)
(* with small coefficients, any duplicate-free selection of names, one of  *)
(* them not in the method set), running calculateDerivatives and           *)
(* generateErrorData once.                                                 *)
(***************************************************************************)
UnknownMethod == "Simpson Rule"

FnInputs ==
    {Poly(a, b, c) : a, b \in -MaxCoef..MaxCoef, c \in {0, 1}}
        \cup {DefaultFunction, Malformed, Inverse, FloorX, FreeSymbol}
FnPoints == {Num(0), Num(1), Rat(-1, 2)}
FnSteps == {Rat(1, 10), Rat(1, 2)}
FnSelections ==
    {s \in UNION {[1..n -> MethodNames \cup {UnknownMethod}] :
                    n \in 0..MaxSelection} :
        \A i, j \in DOMAIN s : i # j => s[i] # s[j]}

InitFn ==
    /\ functionInput \in FnInputs
    /\ evaluationPoint \in FnPoints
    /\ stepSize \in FnSteps
    /\ selectedMethods \in FnSelections
    /\ showTangentLines = TRUE
    /\ results = <<>>
    /\ plotData = <<>>
    /\ errorData = <<>>
    /\ functionError = ""
    /\ queue = <<CalcEffect, ErrorEffect>>
    /\ pending = NoPending
    /\ invokedSteps = {}
    /\ changes = 0
    /\ exported = <<>>

NextFn == CalculateDerivatives \/ GenerateErrorData \/ Render

SpecFn == InitFn /\ [][NextFn]_vars

(***************************************************************************)
(* What the last recomputation produced: the value an effect handed to its *)
(* setter, until React stores it.                                          *)
(***************************************************************************)
CalcRan == ~Includes(queue, CalcEffect)
SweepRan == ~Includes(queue, ErrorEffect)
LastResults ==
    IF pending.results # <<>> THEN pending.results[1] ELSE results
LastSweep ==
    IF pending.errorData # <<>> THEN pending.errorData[1] ELSE errorData
SelectedKnown ==
    SelectSeq(selectedMethods,
              LAMBDA m : m \in {Forward, Backward, Central})

\* C1 (as claimed): once recomputation has settled on an expression that
\* does not parse, the stored results list is empty.
C1_ResultsWipedOnParseError ==
    (Settled /\ ~Parses(functionInput)) => results = <<>>

\* C2: in every result the orchestrator produces, the relative error is null
\* when the analytical value is exactly zero or missing, and otherwise is
\* |numerical - analytical| / |analytical| * 100.
C2_RelativeError ==
    \A i \in DOMAIN LastResults :
        LET r == LastResults[i]
        IN  IF r.analytical = Null \/ r.analytical = Num(0)
            THEN r.relativeError = Null
            ELSE r.relativeError =
                    Mul(Div(Abs(Sub(r.numerical, r.analytical)),
                            Abs(r.analytical)), Num(100))

\* a result whose analytical value is zero while its estimate is not
C2_Witness ==
    \E i \in DOMAIN LastResults :
        /\ LastResults[i].analytical = Num(0)
        /\ IsFinite(LastResults[i].numerical)
        /\ LastResults[i].numerical # Num(0)
        /\ LastResults[i].relativeError = Null

\* C3 (as claimed): once recomputation has settled on an expression whose
\* derivative is unavailable or that does not compile, the stored
\* convergence data holds no series.
C3_NoSeriesWithoutDerivative ==
    (Settled /\ ~Differentiable(functionInput)) => errorData = <<>>

\* C4: when the expression compiles and symbolic differentiation fails, the
\* orchestrator produces one result per selected method with its numerical
\* estimate, and analytical value, absolute error and relative error are
\* null in every one of them.
C4_AllNullWithoutDerivative ==
    (CalcRan /\ Parses(functionInput) /\ ~Differentiable(functionInput)) =>
        /\ Len(LastResults) = Len(SelectedKnown)
        /\ \A i \in DOMAIN LastResults :
              /\ LastResults[i].method = SelectedKnown[i]
              /\ LastResults[i].numerical =
                    Calculate(SelectedKnown[i], functionInput,
                              evaluationPoint, stepSize)
              /\ LastResults[i].analytical = Null
              /\ LastResults[i].absoluteError = Null
              /\ LastResults[i].relativeError = Null

\* two methods computed for floor(x), both without analytical reference
C4_Witness ==
    /\ CalcRan
    /\ functionInput = FloorX
    /\ Len(LastResults) = 2
    /\ IsFinite(LastResults[1].numerical)
    /\ LastResults[2].absoluteError = Null

\* C5: for a compilable expression the orchestrator produces exactly one
\* result per selected name of the method set, in the order of the
\* selection; names outside the set are skipped and change nothing else.
C5_OnePerSelectedMethod ==
    (CalcRan /\ Parses(functionInput)) =>
        /\ [i \in DOMAIN LastResults |-> LastResults[i].method]
              = SelectedKnown
        /\ \A i \in DOMAIN LastResults :
              LastResults[i] =
                  ResultFor(LastResults[i].method,
                            parseFunction(functionInput),
                            getAnalyticalDerivative(functionInput),
                            evaluationPoint, stepSize)

\* a selection led by an unknown name, whose second name got the only result
C5_Witness ==
    /\ CalcRan
    /\ Len(selectedMethods) = 2
    /\ selectedMethods[1] = UnknownMethod
    /\ Len(LastResults) = 1
    /\ LastResults[1].method = selectedMethods[2]

\* C6 (as claimed): no finite-difference estimator is ever invoked with
\* h = 0.
C6_NoZeroStep == Num(0) \notin invokedSteps

\* the points at which a method's estimator evaluates the function
SampledAt(methodName, x, h) ==
    CASE methodName = Forward -> {Add(x, h), x}
      [] methodName = Backward -> {x, Sub(x, h)}
      [] methodName = Central -> {Add(x, h), Sub(x, h)}

PlotOfInputs ==
    PlotTraces(functionInput, evaluationPoint, stepSize, selectedMethods,
               NewResults(functionInput, evaluationPoint, stepSize,
                          selectedMethods),
               showTangentLines)

\* C8 (as claimed): the plot data a pass produces depends only on the input
\* tuple, not on whether the results were recomputed before or after it.
C8_PlotDependsOnInputsOnly ==
    (pending.plotData # <<>> /\ Parses(functionInput)) =>
        pending.plotData[1] = PlotOfInputs

\* C8 (amended): results and convergence data depend only on the input
\* tuple; a pass of the plot sampler draws the tangents of the results
\* stored at the last render, and once recomputation has settled on a
\* compilable expression the plot data is that of the input tuple.
C8_PlotOfInputsOnceSettled ==
    /\ (CalcRan /\ Parses(functionInput)) =>
          LastResults = NewResults(functionInput, evaluationPoint, stepSize,
                                   selectedMethods)
    /\ (SweepRan /\ Differentiable(functionInput)) =>
          LastSweep = ErrorTraces(functionInput, evaluationPoint,
                                  selectedMethods)
    /\ pending.plotData # <<>> =>
          pending.plotData[1] =
              PlotTraces(functionInput, evaluationPoint, stepSize,
                         selectedMethods, results, showTangentLines)
    /\ (Settled /\ Parses(functionInput)) => plotData = PlotOfInputs

\* settled after an input change, with the tangent of a fresh result drawn
C8_Witness ==
    /\ Settled
    /\ changes > 0
    /\ Parses(functionInput)
    /\ showTangentLines
    /\ results # <<>>
    /\ \E i \in DOMAIN plotData :
          plotData[i].name = "Tangent" /\ plotData[i].method = results[1].method

\* C9: with the compiled function and the derivative available, the sweep
\* produces one series per selected method of the set, in selection order,
\* each of 20 pairs over the same 20 step sizes, which start at 10^-4, grow
\* tenfold every five steps, are strictly increasing and positive, with the
\* absolute error |numerical - analytical| at the evaluation point.
C9_SweepSeries ==
    (SweepRan /\ Parses(functionInput) /\ Differentiable(functionInput)) =>
        /\ [i \in DOMAIN LastSweep |-> LastSweep[i].name] = SelectedKnown
        /\ \A i \in DOMAIN LastSweep :
              LET t == LastSweep[i]
              IN  /\ Len(t.x) = 20 /\ Len(t.y) = 20
                  /\ t.x = LastSweep[1].x
                  /\ t.x[1] = Rat(1, 10000)
                  /\ \A k \in 1..20 : IsFinite(t.x[k]) /\ t.x[k][1] > 0
                  /\ \A k \in 1..19 : Less(t.x[k], t.x[k + 1])
                  /\ \A k \in 1..15 : t.x[k + 5] = Mul(Num(10), t.x[k])
                  /\ \A k \in 1..20 :
                        t.y[k] =
                            Abs(Sub(Calculate(t.name, functionInput,
                                              evaluationPoint, t.x[k]),
                                    CallDerivative(functionInput,
                                                   evaluationPoint)))

\* two series for x^2 + 2*x + 1: central without error, forward off by h
C9_Witness ==
    /\ SweepRan
    /\ functionInput = DefaultFunction
    /\ Len(LastSweep) = 2
    /\ LastSweep[1].name = Central
    /\ LastSweep[1].y[20] = Num(0)
    /\ LastSweep[2].name = Forward
    /\ LastSweep[2].y[1] = Rat(1, 10000)

\* C10: for a quadratic a*x^2 + b*x + c and a step h > 0 the central
\* estimate is the derivative 2*a*x + b exactly, the forward estimate lies
\* a*h above it and the backward estimate a*h below it.
C10_QuadraticExact ==
    (CalcRan /\ functionInput.kind = "poly" /\ stepSize[1] > 0) =>
        \A i \in DOMAIN LastResults :
            LET r == LastResults[i]
                exact == Add(Mul(Num(2 * functionInput.a), evaluationPoint),
                             Num(functionInput.b))
                ah == Mul(Num(functionInput.a), stepSize)
            IN  /\ r.analytical = exact
                /\ r.method = Central =>
                      r.numerical = exact /\ r.absoluteError = Num(0)
                /\ r.method = Forward =>
                      r.numerical = Add(exact, ah)
                          /\ r.absoluteError = Abs(ah)
                /\ r.method = Backward =>
                      r.numerical = Sub(exact, ah)
                          /\ r.absoluteError = Abs(ah)

\* x^2 + 2*x + 1 at x = 1 with h = 0.1: central 4, forward 4.1
C10_Witness ==
    /\ CalcRan
    /\ functionInput = DefaultFunction
    /\ evaluationPoint = Num(1)
    /\ stepSize = Rat(1, 10)
    /\ Len(LastResults) = 2
    /\ LastResults[1].method = Central
    /\ LastResults[1].numerical = Num(4)
    /\ LastResults[2].method = Forward
    /\ LastResults[2].numerical = Rat(41, 10)

\* C11 (as claimed): the results written to an exported file are the
\* results the orchestrator computes from the expression, evaluation point
\* and step size written beside them (none when the expression does not
\* compile).
C11_ExportSelfConsistent ==
    exported # <<>> =>
        LET e == exported[1]
        IN  IF ~Parses(e.function)
            THEN e.results = <<>>
            ELSE \A i \in DOMAIN e.results :
                    e.results[i] =
                        ResultFor(e.results[i].method,
                                  parseFunction(e.function),
                                  getAnalyticalDerivative(e.function),
                                  e.evaluationPoint, e.stepSize)

\* C12: once recomputation has settled, the parse-error message is
\* non-empty exactly when the current expression fails to compile.
C12_ErrorIffParseFailure ==
    Settled => (functionError # "" <=> ~Parses(functionInput))

\* the message cleared after a malformed expression, exported while it was
\* shown, has been corrected
C12_Witness ==
    /\ Settled
    /\ exported # <<>>
    /\ ~Parses(exported[1].function)
    /\ Parses(functionInput)
    /\ functionError = ""

=============================================================================
